---- MODULE Spec2Model ----
(***************************************************************************)
(* A model of terminus/models/road.py: the Road class, an ordered chain of *)
(* road nodes with a point index and a list of lanes.                      *)
(*                                                                         *)
(* The module is Python 2 code (map and zip return lists, reduce is a      *)
(* builtin).  Sequences are 1-based here and 0-based in the source; python *)
(* indices cross that border only in ListGetItem.                          *)
(*                                                                         *)
(* Point, RoadSimpleNode, RoadIntersectionNode and Lane are imported by    *)
(* road.py and are not part of it; what the model needs of them is stated  *)
(* from the design document of the core, not from their code.              *)
(*                                                                         *)
(* A road is built by one of the two constructors (Init) and then called.  *)
(* Every call is one action; it records what it was called with and what   *)
(* it returned or raised in `last`, and the chain and the registrations it *)
(* found in `pre`.  Four specifications run these actions:                 *)
(*   Spec         the calls that change the chain, and the membership test *)
(*   TrimSpec     add_control_point, reverse and trim_redundant_nodes      *)
(*   QuerySpec    add_lane and the positional and distance queries         *)
(*   CompareSpec  add_lane and the comparisons                             *)
(***************************************************************************)
EXTENDS Integers, Sequences, FiniteSets, TLC

\* ------------------------------------------------------------------ bounds

\* The longest chain add_control_point and the constructors build.
MaxLen == 3
\* The number of node objects of one center and one class alive at once.
MaxCopies == 1
\* The number of calls that change the chain after the road is built.
MaxCalls == 2
\* The number of lanes add_lane attaches.
MaxLanes == 1

\* ------------------------------------------------------------ the geometry

\* Coordinates are fixed-point numbers with this many decimal digits.
CoordinateDigits == 6

Pt(x, y) == [x |-> x, y |-> y]

\* The control points the model draws from: 0.000003 lies within the
\* tolerance of the origin, the first three are collinear, the last is not.
Points == {Pt(0, 0), Pt(3, 0), Pt(10, 0), Pt(10, 10)}

Abs(n) == IF n < 0 THEN -n ELSE n

\* Point.__sub__: the vector from q to p.
Sub(p, q) == Pt(p.x - q.x, p.y - q.y)

IsZeroVector(v) == v.x = 0 /\ v.y = 0

\* Point.almost_equal_to(other, precision): every coordinate difference
\* rounds to zero at `precision` decimal digits.
AlmostEqualTo(p, q, precision) ==
    LET half == 10 ^ (CoordinateDigits - precision)
    IN  /\ 2 * Abs(p.x - q.x) < half
        /\ 2 * Abs(p.y - q.y) < half

\* Point.distance_to(other), carried as the square of the Euclidean
\* distance: the square root is one-to-one on it, and 0.0 is 0.
DistanceTo(p, q) == (p.x - q.x) * (p.x - q.x) + (p.y - q.y) * (p.y - q.y)

\* The angle between two nonzero vectors, in units of 22.5 degrees and
\* rounded to a sector: 0 is 0 degrees, 2 is 45, 4 is 90, 6 is 135, 8 is 180
\* and the odd values are the open sectors between them.  Comparing a sector
\* with an even threshold is comparing the angle with that threshold.
Sector(v, w) ==
    LET d == v.x * w.x + v.y * w.y
        c == Abs(v.x * w.y - v.y * w.x)
    IN  IF d > 0
        THEN (IF c = 0 THEN 0 ELSE IF c < d THEN 1 ELSE IF c = d THEN 2 ELSE 3)
        ELSE IF d = 0 THEN 4
        ELSE (IF c = 0 THEN 8 ELSE IF c < -d THEN 7 ELSE IF c = -d THEN 6 ELSE 5)

\* What Point.angle does with a zero vector is not fixed by road.py: it
\* raises, returns 0 or returns NaN.
ZeroVectorOutcomes == {"raise", "zero", "nan"}

\* Point.angle(other) with the outcome `zv` for a zero vector.
Angle(v, w, zv) ==
    IF IsZeroVector(v) \/ IsZeroVector(w)
    THEN (IF zv = "raise" THEN [kind |-> "raise", value |-> 0]
          ELSE IF zv = "nan" THEN [kind |-> "nan", value |-> 0]
          ELSE [kind |-> "value", value |-> 0])
    ELSE [kind |-> "value", value |-> Sector(v, w)]

\* The thresholds trim_redundant_nodes is called with: a negative angle, 0
\* (the default), 90 and 180 degrees.
Angles == {-1, 0, 4, 8}

\* ---------------------------------------------------------------- the nodes

Kinds == {"RoadSimpleNode", "RoadIntersectionNode"}

\* A node object: its center, its class and, as its identity, its number
\* among the objects of that center and class.
Node(id, center, kind) == [id |-> id, center |-> center, kind |-> kind]

RoadSimpleNode(id, point) == Node(id, point, "RoadSimpleNode")

is_intersection(node) == node.kind = "RoadIntersectionNode"

\* RoadNode.__eq__: same class and same center.
NodeEq(a, b) == a.kind = b.kind /\ a.center = b.center

Range(s) == {s[i] : i \in DOMAIN s}

\* ------------------------------------------------------- python primitives

\* The value a call hands back: it returns `value` or raises `status`.
Return(value) == [status |-> "ok", value |-> value]
Raise(error) == [status |-> error, value |-> "None"]

Min(a, b) == IF a < b THEN a ELSE b

\* list[index] had python no negative indices: IndexError outside 0..len-1.
ListGetItemFromZero(list, index) ==
    IF 0 <= index /\ index < Len(list) THEN Return(list[index + 1])
    ELSE Raise("IndexError")

\* list[index]: a python index counts from 0 and, when negative, from the
\* end; IndexError outside -len..len-1.
ListGetItem(list, index) ==
    LET n == Len(list)
    IN  IF 0 <= index /\ index < n THEN Return(list[index + 1])
        ELSE IF -n <= index /\ index < 0 THEN Return(list[n + index + 1])
        ELSE Raise("IndexError")

\* list[index] = value, for an index list[index] accepts.
ListSetItem(list, index, value) ==
    LET n == Len(list)
        at == IF index >= 0 THEN index + 1 ELSE n + index + 1
    IN  [list EXCEPT ![at] = value]

\* list[start:] for start >= 0.
SliceFrom(list, start) ==
    [i \in 1 .. (IF Len(list) > start THEN Len(list) - start ELSE 0) |-> list[i + start]]

\* zip(a, b): pairs up to the shorter list.
Zip(a, b) == [i \in 1 .. Min(Len(a), Len(b)) |-> <<a[i], b[i]>>]

\* list.reverse()
Reversed(list) == [i \in 1 .. Len(list) |-> list[Len(list) + 1 - i]]

\* ----------------------------------------------------------------- the lanes

\* add_lane's default width.
DefaultLaneWidth == 4

\* The lane offsets add_lane is called with.
Offsets == {-2, 3}

Lane(width, offset, reversed) ==
    [width |-> width, offset |-> offset, reversed |-> reversed]

\* Lane.external_offset(): the offset moved outward by half the width.
external_offset(lane) ==
    IF lane.offset < 0 THEN lane.offset - lane.width \div 2
    ELSE lane.offset + lane.width \div 2

\* min(list) and max(list): ValueError on an empty list.
ListMin(list) ==
    IF Len(list) = 0 THEN Raise("ValueError")
    ELSE Return(CHOOSE m \in Range(list) : \A x \in Range(list) : m <= x)

ListMax(list) ==
    IF Len(list) = 0 THEN Raise("ValueError")
    ELSE Return(CHOOSE m \in Range(list) : \A x \in Range(list) : m >= x)

\* ------------------------------------------------------------------ the road
\* A road is [nodes, point_to_node, lanes, registered]: Road's three fields
\* and, for the nodes' side of added_to / removed_from, the set of node
\* objects that hold a back-reference to this road.

\* Road.__init__
EmptyRoad ==
    [nodes |-> <<>>, point_to_node |-> <<>>, lanes |-> <<>>, registered |-> {}]

\* RoadNode.added_to(road) and RoadNode.removed_from(road)
added_to(registered, node) == registered \cup {node}
removed_from(registered, node) == registered \ {node}

\* The node objects the road or its nodes still refer to.
Live(road) ==
    Range(road.nodes) \cup road.registered \cup Range(road.point_to_node)

\* The identity of the next node object constructed at `center` with class
\* `kind`: the first copy number no live object of that center and class has.
HasFreshId(road, center, kind) ==
    \E id \in 1 .. MaxCopies : Node(id, center, kind) \notin Live(road)
FreshId(road, center, kind) ==
    CHOOSE id \in 1 .. MaxCopies :
        /\ Node(id, center, kind) \notin Live(road)
        /\ \A other \in 1 .. (id - 1) : Node(other, center, kind) \in Live(road)

\* _add_node putting the node in front of the chain.
AddNodeInFront(road, node) ==
    [road EXCEPT !.nodes = <<node>> \o road.nodes,
                 !.registered = added_to(road.registered, node)]

\* Road._add_node
add_node(road, node) ==
    [road EXCEPT !.nodes = Append(road.nodes, node),
                 !.registered = added_to(road.registered, node)]

\* Road.add_control_point
add_control_point(road, point) ==
    LET node == RoadSimpleNode(FreshId(road, point, "RoadSimpleNode"), point)
        added == add_node(road, node)
    IN  [added EXCEPT !.point_to_node =
            [q \in DOMAIN road.point_to_node \cup {point} |->
                IF q = point THEN node ELSE road.point_to_node[q]]]

\* Road.add_control_points, and with it the loop of from_control_points
RECURSIVE add_control_points(_, _)
add_control_points(road, points) ==
    IF points = <<>> THEN road
    ELSE add_control_points(add_control_point(road, Head(points)), Tail(points))

\* Road.from_control_points
from_control_points(array_of_points) ==
    add_control_points(EmptyRoad, array_of_points)

\* Road.from_nodes
RECURSIVE AddNodes(_, _)
AddNodes(road, array_of_nodes) ==
    IF array_of_nodes = <<>> THEN road
    ELSE AddNodes(add_node(road, Head(array_of_nodes)), Tail(array_of_nodes))

from_nodes(array_of_nodes) == AddNodes(EmptyRoad, array_of_nodes)

\* Road.add_lane
add_lane(road, offset) ==
    [road EXCEPT !.lanes = Append(road.lanes, Lane(DefaultLaneWidth, offset, FALSE))]

\* Road.width
width(lanes) ==
    LET external_offsets == [i \in 1 .. Len(lanes) |-> external_offset(lanes[i])]
        lo == ListMin(external_offsets)
        hi == ListMax(external_offsets)
    IN  IF lo.status # "ok" THEN lo
        ELSE IF hi.status # "ok" THEN hi
        ELSE Return(Abs(lo.value) + Abs(hi.value))

\* Road.control_points
control_points(road) == [i \in 1 .. Len(road.nodes) |-> road.nodes[i].center]

\* The tolerance includes_control_point passes to almost_equal_to.
Precision == 5

\* includes_control_point without the linear search behind the dictionary.
IncludesByIndexOnly(road, point) == point \in DOMAIN road.point_to_node

\* Road.includes_control_point
includes_control_point(road, point) ==
    \/ point \in DOMAIN road.point_to_node
    \/ \E i \in 1 .. Len(road.nodes) :
          AlmostEqualTo(road.nodes[i].center, point, Precision)

\* control_points_distances without the single-point case.
DistancesOfPairsOnly(road) ==
    [i \in 1 .. (IF Len(road.nodes) > 1 THEN Len(road.nodes) - 1 ELSE 0) |->
        DistanceTo(road.nodes[i].center, road.nodes[i + 1].center)]

\* Road.control_points_distances
control_points_distances(road) ==
    LET points == control_points(road)
        point_pairs == Zip(points, SliceFrom(points, 1))
    IN  IF Len(points) = 1 THEN <<0>>
        ELSE [i \in 1 .. Len(point_pairs) |->
                 DistanceTo(point_pairs[i][1], point_pairs[i][2])]

\* Road.lane_at
lane_at(road, index) == ListGetItem(road.lanes, index)

\* Road.node_at
node_at(road, index) == ListGetItem(road.nodes, index)

\* Road.first_node and Road.last_node
first_node(road) == ListGetItem(road.nodes, 0)
last_node(road) == ListGetItem(road.nodes, -1)

\* Road.reverse
reverse(road) == [road EXCEPT !.nodes = Reversed(road.nodes)]

\* _index_of_node_at with -1, not None, for a point no node is centered at.
IndexOfNodeAtOrLast(road, point) ==
    IF \E i \in 1 .. Len(road.nodes) : road.nodes[i].center = point
    THEN [none |-> FALSE,
          index |-> (CHOOSE i \in 1 .. Len(road.nodes) :
                        /\ road.nodes[i].center = point
                        /\ \A j \in 1 .. (i - 1) : road.nodes[j].center # point) - 1]
    ELSE [none |-> FALSE, index |-> -1]

\* Road._index_of_node_at: the 0-based index of the first node centered at
\* `point`, or None.
index_of_node_at(road, point) ==
    IF \E i \in 1 .. Len(road.nodes) : road.nodes[i].center = point
    THEN [none |-> FALSE,
          index |-> (CHOOSE i \in 1 .. Len(road.nodes) :
                        /\ road.nodes[i].center = point
                        /\ \A j \in 1 .. (i - 1) : road.nodes[j].center # point) - 1]
    ELSE [none |-> TRUE, index |-> 0]

\* Road.replace_node_at: the road after the call and what the call returns.
\* list[None] is a TypeError.
replace_node_at(road, point, new_node) ==
    LET index == index_of_node_at(road, point)
        old_node == ListGetItem(road.nodes, index.index)
    IN  IF index.none THEN [road |-> road, ret |-> Raise("TypeError")]
        ELSE IF old_node.status # "ok" THEN [road |-> road, ret |-> old_node]
        ELSE [road |->
                [road EXCEPT
                    !.nodes = ListSetItem(road.nodes, index.index, new_node),
                    !.registered =
                        removed_from(added_to(road.registered, new_node),
                                     old_node.value)],
              ret |-> Return("None")]

\* The loop body's condition without the test for an intersection.
KeepsNodeByAngleOnly(current_node, turn, angle) ==
    turn.kind = "value" /\ Abs(turn.value) > angle

\* The condition of trim_redundant_nodes' loop body: whether current_node is
\* kept, given the angle between the two vectors.
KeepsNode(current_node, turn, angle) ==
    \/ is_intersection(current_node)
    \/ (turn.kind = "value" /\ Abs(turn.value) > angle)

\* The loop of trim_redundant_nodes from position `index` (1-based) on.  The
\* angle is computed only for a node that is no intersection.
RECURSIVE TrimLoop(_, _, _, _, _, _)
TrimLoop(list, index, previous_node, trimmed_nodes, angle, zv) ==
    IF index > Len(list) - 1 THEN Return(trimmed_nodes)
    ELSE LET current_node == list[index]
             following_node == list[index + 1]
             previous_vector == Sub(current_node.center, previous_node.center)
             following_vector == Sub(following_node.center, current_node.center)
             turn == Angle(previous_vector, following_vector, zv)
         IN  IF ~is_intersection(current_node) /\ turn.kind = "raise"
             THEN Raise("AngleError")
             ELSE IF KeepsNode(current_node, turn, angle)
             THEN TrimLoop(list, index + 1, current_node,
                           Append(trimmed_nodes, current_node), angle, zv)
             ELSE TrimLoop(list, index + 1, previous_node, trimmed_nodes,
                           angle, zv)

\* Road.trim_redundant_nodes
trim_redundant_nodes(road, angle, zv) ==
    LET first == first_node(road)
        trimmed == TrimLoop(road.nodes, 2, first.value, <<first.value>>, angle, zv)
        last == last_node(road)
    IN  IF first.status # "ok" THEN [road |-> road, ret |-> first]
        ELSE IF trimmed.status # "ok" THEN [road |-> road, ret |-> trimmed]
        ELSE [road |-> [road EXCEPT !.nodes = Append(trimmed.value, last.value)],
              ret |-> Return("None")]

\* list == list over nodes
NodesEq(a, b) ==
    Len(a) = Len(b) /\ \A i \in 1 .. Len(a) : NodeEq(a[i], b[i])

\* Road.__eq__: `other` is [isRoad, lanes, nodes].  `and` stops at the first
\* false operand, and an operand that raises ends the comparison.
eq(road, other) ==
    IF ~other.isRoad THEN Return(FALSE)
    ELSE LET mine == width(road.lanes)
             theirs == width(other.lanes)
         IN  IF mine.status # "ok" THEN mine
             ELSE IF theirs.status # "ok" THEN theirs
             ELSE IF mine.value # theirs.value THEN Return(FALSE)
             ELSE Return(NodesEq(road.nodes, other.nodes))

\* Road.__ne__
ne(road, other) ==
    LET equal == eq(road, other)
    IN  IF equal.status # "ok" THEN equal ELSE Return(~equal.value)

\* ------------------------------------------------------------ the state

VARIABLES
    nodes,           \* Road._nodes
    point_to_node,   \* Road._point_to_node
    lanes,           \* Road._lanes
    registered,      \* the nodes whose back-reference names this road
    last,            \* the last call: [op, args, ret]
    pre,             \* the chain and the registrations before the last call
    calls,           \* the number of calls that changed the chain so far
    added            \* every point add_control_point was called with so far

vars == <<nodes, point_to_node, lanes, registered, last, pre, calls, added>>

\* The road object the variables hold.
Self ==
    [nodes |-> nodes, point_to_node |-> point_to_node, lanes |-> lanes,
     registered |-> registered]

Snapshot(road) == [nodes |-> road.nodes, registered |-> road.registered]

\* Sequences over `set` of length at most n.
SeqsUpTo(set, n) == UNION {[1 .. k -> set] : k \in 0 .. n}

\* The number of positions before `i` that hold what position `i` holds.
Earlier(list, i) == Cardinality({j \in 1 .. (i - 1) : list[j] = list[i]})

\* The point arrays from_control_points is given.
PointArrays ==
    {a \in SeqsUpTo(Points, MaxLen) : \A i \in 1 .. Len(a) : Earlier(a, i) < MaxCopies}

\* The arrays from_nodes is given: node objects built by the caller, each
\* once, or a closed loop that ends with its first node object again.
NodeArrays ==
    LET shapes == {a \in SeqsUpTo(Points \X Kinds, MaxLen - 1) :
                      \A i \in 1 .. Len(a) : Earlier(a, i) < MaxCopies}
        open == {[i \in 1 .. Len(a) |-> Node(Earlier(a, i) + 1, a[i][1], a[i][2])] :
                    a \in shapes}
    IN  open \cup {Append(a, a[1]) : a \in {b \in open : Len(b) >= 2}}

\* A road as a constructor leaves it.
Built(road, op, args) ==
    /\ nodes = road.nodes
    /\ point_to_node = road.point_to_node
    /\ lanes = road.lanes
    /\ registered = road.registered
    /\ last = [op |-> op, args |-> args, ret |-> Return("None")]
    /\ pre = Snapshot(EmptyRoad)
    /\ calls = 0
    /\ added = (IF op = "from_control_points" THEN Range(args) ELSE {})

\* A road built from control points.
PointsInit ==
    \E array_of_points \in PointArrays :
        Built(from_control_points(array_of_points), "from_control_points",
              array_of_points)

\* A road built from the caller's nodes.
NodesInit ==
    \E array_of_nodes \in NodeArrays :
        Built(from_nodes(array_of_nodes), "from_nodes", array_of_nodes)

Init == PointsInit \/ NodesInit

\* A call that leaves `road` behind and hands back `ret`.
Call(op, args, road, ret) ==
    /\ nodes' = road.nodes
    /\ point_to_node' = road.point_to_node
    /\ lanes' = road.lanes
    /\ registered' = road.registered
    /\ last' = [op |-> op, args |-> args, ret |-> ret]
    /\ pre' = Snapshot(Self)
    /\ added' = (IF op = "add_control_point" THEN added \cup {args} ELSE added)

\* A call that may change the chain.
Mutation(op, args, road, ret) ==
    /\ calls < MaxCalls
    /\ calls' = calls + 1
    /\ Call(op, args, road, ret)

\* A call that leaves the chain alone.
Query(op, args, road, ret) ==
    /\ UNCHANGED calls
    /\ Call(op, args, road, ret)

\* ---------------------------------------------------------- the mutators

AddControlPoint ==
    \E point \in Points :
        /\ Len(nodes) < MaxLen
        /\ HasFreshId(Self, point, "RoadSimpleNode")
        /\ Mutation("add_control_point", point, add_control_point(Self, point),
                Return("None"))

AddLane ==
    \E offset \in Offsets :
        /\ Len(lanes) < MaxLanes
        /\ Query("add_lane", offset, add_lane(Self, offset), Return("None"))

Reverse == Mutation("reverse", "None", reverse(Self), Return("None"))

\* The nodes replace_node_at is handed: a node object the caller has just
\* built, or one the road already refers to.
NewNodes ==
    Live(Self) \cup
    {Node(FreshId(Self, center, kind), center, kind) :
        <<center, kind>> \in {ck \in Points \X Kinds : HasFreshId(Self, ck[1], ck[2])}}

ReplaceNodeAt ==
    \E point \in Points, new_node \in NewNodes :
        LET out == replace_node_at(Self, point, new_node)
        IN  Mutation("replace_node_at", [point |-> point, new_node |-> new_node],
                 out.road, out.ret)

TrimRedundantNodes ==
    \E angle \in Angles, zv \in ZeroVectorOutcomes :
        LET out == trim_redundant_nodes(Self, angle, zv)
        IN  Mutation("trim_redundant_nodes", angle, out.road, out.ret)

\* ----------------------------------------------------------- the queries

\* The indices node_at is called with.
Indices == -(MaxLen + 1) .. (MaxLen + 1)

NodeAt ==
    \E index \in Indices :
        Query("node_at", index, Self, node_at(Self, index))

\* The indices lane_at is called with.
LaneIndices == -(MaxLanes + 1) .. (MaxLanes + 1)

LaneAt ==
    \E index \in LaneIndices :
        Query("lane_at", index, Self, lane_at(Self, index))

IncludesControlPoint ==
    \E point \in Points :
        Query("includes_control_point", point, Self,
             Return(includes_control_point(Self, point)))

ControlPointsDistances ==
    Query("control_points_distances", "None", Self,
         Return(control_points_distances(Self)))

\* What a road is compared with: something that is no Road, or a road with
\* no lane, one lane or this road's lanes, and this road's chain as it is or
\* reversed.
Others ==
    {[isRoad |-> FALSE, lanes |-> <<>>, nodes |-> <<>>]} \cup
    {[isRoad |-> TRUE, lanes |-> other_lanes, nodes |-> other_nodes] :
        other_lanes \in {<<>>, lanes} \cup
                        {<<Lane(DefaultLaneWidth, o, FALSE)>> : o \in Offsets},
        other_nodes \in {nodes, Reversed(nodes)}}

Eq == \E other \in Others : Query("__eq__", other, Self, eq(Self, other))

Ne == \E other \in Others : Query("__ne__", other, Self, ne(Self, other))

\* The chain: the calls that change it, and the membership test that reads
\* the point index they leave behind.  No call of Next reads the lanes.
Next ==
    \/ AddControlPoint
    \/ Reverse
    \/ ReplaceNodeAt
    \/ TrimRedundantNodes
    \/ IncludesControlPoint

Spec == Init /\ [][Next]_vars

\* The chain without replace_node_at: what a behaviour of TrimSpec shows owes
\* nothing to the order of added_to and removed_from.
TrimNext ==
    \/ AddControlPoint
    \/ Reverse
    \/ TrimRedundantNodes

TrimSpec == Init /\ [][TrimNext]_vars

\* The read-only calls on the chain and the lanes, on every road a
\* constructor builds, with the lanes add_lane gives it.
QueryNext ==
    \/ AddLane
    \/ NodeAt
    \/ LaneAt
    \/ ControlPointsDistances

QuerySpec == Init /\ [][QueryNext]_vars

\* The comparisons, on every road a constructor builds, with the lanes
\* add_lane gives it.
CompareNext ==
    \/ AddLane
    \/ Eq
    \/ Ne

CompareSpec == Init /\ [][CompareNext]_vars

\* ------------------------------------------------------------- the claims

\* Whether `s` is `t` with some positions left out, the rest in order.
RECURSIVE IsSubsequence(_, _)
IsSubsequence(s, t) ==
    IF s = <<>> THEN TRUE
    ELSE IF t = <<>> THEN FALSE
    ELSE IF Head(s) = Head(t) THEN IsSubsequence(Tail(s), Tail(t))
    ELSE IsSubsequence(s, Tail(t))

\* Whether some node of `list` is centered at `point`.
HasNodeAt(list, point) == \E i \in 1 .. Len(list) : list[i].center = point

\* The first position of `list` whose node is centered at `point`.
FirstNodeAt(list, point) ==
    CHOOSE i \in 1 .. Len(list) :
        /\ list[i].center = point
        /\ \A j \in 1 .. (i - 1) : list[j].center # point

\* C1: after trim_redundant_nodes on a road of at least 2 nodes, whatever the
\* angle, the chain is an order-preserving subsequence of the chain before,
\* it starts with the former first node and ends with the former last node,
\* and every intersection node of the chain before is still in it.
C1_TrimKeepsOrderEndsAndIntersections ==
    (last.op = "trim_redundant_nodes" /\ Len(pre.nodes) >= 2) =>
        /\ Len(nodes) >= 2
        /\ IsSubsequence(nodes, pre.nodes)
        /\ nodes[1] = pre.nodes[1]
        /\ nodes[Len(nodes)] = pre.nodes[Len(pre.nodes)]
        /\ \A i \in 1 .. Len(pre.nodes) :
              is_intersection(pre.nodes[i]) => pre.nodes[i] \in Range(nodes)

\* C1's case: a trim that returned and dropped an interior node.
C1_Witness ==
    /\ last.op = "trim_redundant_nodes"
    /\ last.ret.status = "ok"
    /\ Len(pre.nodes) = 3
    /\ Len(nodes) = 2

\* C2: trim_redundant_nodes on a road of fewer than 3 nodes completes and
\* leaves the chain as it was.
C2_TrimOfShortRoadIsNoOp ==
    (last.op = "trim_redundant_nodes" /\ Len(pre.nodes) < 3) =>
        /\ last.ret.status = "ok"
        /\ nodes = pre.nodes

\* C3: when some node is centered at `point`, replace_node_at(point, new_node)
\* puts new_node in the slot of the first such node, leaves every other slot
\* alone, and ends with new_node registered and the old node unregistered.
C3_ReplaceSwapsNodeAndRegistration ==
    (last.op = "replace_node_at" /\ HasNodeAt(pre.nodes, last.args.point)) =>
        LET i == FirstNodeAt(pre.nodes, last.args.point)
        IN  /\ last.ret.status = "ok"
            /\ nodes = [pre.nodes EXCEPT ![i] = last.args.new_node]
            /\ last.args.new_node \in registered
            /\ pre.nodes[i] \notin registered

\* C4: when no node is centered at `point`, replace_node_at raises and
\* changes nothing: the chain and the registrations are as before.
C4_ReplaceWithoutMatchRaisesAndChangesNothing ==
    (last.op = "replace_node_at" /\ ~HasNodeAt(pre.nodes, last.args.point)) =>
        /\ last.ret.status # "ok"
        /\ nodes = pre.nodes
        /\ registered = pre.registered

\* C4's case: a replace_node_at on a road with nodes, none at `point`, with
\* a new node that is not registered.
C4_Witness ==
    /\ last.op = "replace_node_at"
    /\ Len(pre.nodes) >= 2
    /\ ~HasNodeAt(pre.nodes, last.args.point)
    /\ last.args.new_node \notin pre.registered
    /\ last.ret.status = "TypeError"

\* C5: comparing two roads with == or != returns a boolean and never raises.
C5_ComparisonNeverRaises ==
    (last.op \in {"__eq__", "__ne__"}) =>
        /\ last.ret.status = "ok"
        /\ last.ret.value \in BOOLEAN

\* C6: a road built by from_control_points(P) has as many nodes as P has
\* points and its control points are P in order; add_control_point(q) appends
\* q to the control points there were.
C6_ControlPointsAreThePointsAddedInOrder ==
    /\ (last.op = "from_control_points") =>
          /\ Len(nodes) = Len(last.args)
          /\ control_points(Self) = last.args
    /\ (last.op = "add_control_point") =>
          control_points(Self) =
              Append([i \in 1 .. Len(pre.nodes) |-> pre.nodes[i].center], last.args)

\* C6's case: a point added behind two others.
C6_Witness ==
    /\ last.op = "add_control_point"
    /\ Len(pre.nodes) = 2
    /\ pre.nodes[1].center # pre.nodes[2].center
    /\ last.args # pre.nodes[2].center

\* C7: control_points_distances() returns, for n >= 2 control points, the
\* n-1 distances between neighbours in chain order; for one control point
\* the single value 0.0; for none the empty sequence.
C7_DistancesBetweenNeighbours ==
    (last.op = "control_points_distances") =>
        LET n == Len(nodes)
            distances == last.ret.value
        IN  /\ last.ret.status = "ok"
            /\ (n >= 2) =>
                  /\ Len(distances) = n - 1
                  /\ \A i \in 1 .. (n - 1) :
                        distances[i] = DistanceTo(nodes[i].center, nodes[i + 1].center)
            /\ (n = 1) => distances = <<0>>
            /\ (n = 0) => distances = <<>>

\* C7's case: the distances of a road with a single control point.
C7_Witness ==
    /\ last.op = "control_points_distances"
    /\ Len(nodes) = 1
    /\ last.ret.value = <<0>>

\* The list node_at or lane_at indexes.
Indexed == IF last.op = "node_at" THEN nodes ELSE lanes

\* C8 as stated: node_at(i) and lane_at(i) raise IndexError for every i
\* outside 0..count-1, every negative i included, and return the element at
\* position i otherwise.
C8_EveryIndexOutside0ToCountFails ==
    (last.op \in {"node_at", "lane_at"}) =>
        IF 0 <= last.args /\ last.args < Len(Indexed)
        THEN last.ret.status = "ok" /\ last.ret.value = Indexed[last.args + 1]
        ELSE last.ret.status = "IndexError"

\* C8 as amended: node_at(i) and lane_at(i) raise IndexError for every i
\* outside -count..count-1; they return the element at position i for i in
\* 0..count-1 and the element at position count+i for i in -count..-1.
C8_IndexOutsideMinusCountToCountFails ==
    (last.op \in {"node_at", "lane_at"}) =>
        LET n == Len(Indexed)
            i == last.args
        IN  IF 0 <= i /\ i < n
            THEN last.ret.status = "ok" /\ last.ret.value = Indexed[i + 1]
            ELSE IF -n <= i /\ i < 0
            THEN last.ret.status = "ok" /\ last.ret.value = Indexed[n + i + 1]
            ELSE last.ret.status = "IndexError"

\* C8's case: node_at(-1) on a road whose last node is not its first.
C8_Witness ==
    /\ last.op = "node_at"
    /\ last.args = -1
    /\ Len(nodes) >= 2
    /\ nodes[1] # nodes[Len(nodes)]
    /\ last.ret.status = "ok"
    /\ last.ret.value = nodes[Len(nodes)]

\* Whether some node of the chain is centered at `point` or within the
\* tolerance of it.
NearSomeNode(point) ==
    \E i \in 1 .. Len(nodes) :
        \/ nodes[i].center = point
        \/ AlmostEqualTo(nodes[i].center, point, Precision)

\* C9 as stated: includes_control_point(p) is true exactly when some node of
\* the chain is centered at p or within the tolerance of p.
C9_IncludesIffNearANodeOfTheChain ==
    (last.op = "includes_control_point") =>
        last.ret.value = NearSomeNode(last.args)

\* C9 as amended: includes_control_point(p) is true exactly when p was ever
\* passed to add_control_point (by from_control_points too), whether or not
\* the node made for it is still in the chain, or some node of the chain is
\* centered at p or within the tolerance of p.
C9_IncludesIffEverAddedOrNearANode ==
    (last.op = "includes_control_point") =>
        last.ret.value = (last.args \in added \/ NearSomeNode(last.args))

\* C9's case: the point of a node that left the chain, near no node that
\* remains, is still included.
C9_Witness ==
    /\ last.op = "includes_control_point"
    /\ last.args \in added
    /\ ~NearSomeNode(last.args)
    /\ last.ret.value = TRUE

\* C10: the nodes registered to the road are the nodes of its chain.
C10_RegisteredNodesAreTheChain == registered = Range(nodes)

====
